---- MODULE Spec2Model ----
(***************************************************************************)
(* Model of the dependency-aware verification runner of @halecraft/verify  *)
(* (src/runner.ts, kept in src/unnamed/part_010 lines 1-712): the          *)
(* ReportingDependencyTracker, executeCommand and VerificationRunner.      *)
(*                                                                         *)
(* Strings that address tasks (keys, colon-joined paths, dependency        *)
(* identifiers) are sequences of key atoms: the path "types:tsc" is        *)
(* <<"types", "tsc">>, the key "format" used as an identifier is           *)
(* <<"format">>.  null / undefined / "" are the empty sequence.            *)
(*                                                                         *)
(* Execution follows the Node.js event loop: a handler (run(), a process   *)
(* 'close' or 'error' event) runs to its next await as one step; the       *)
(* promise continuations it makes ready (microtasks) run before the next   *)
(* process event is taken.                                                 *)
(***************************************************************************)
EXTENDS Integers, Sequences, FiniteSets, TLC

VARIABLES
  tree,          \* tasks: VerificationNode[] handed to run()
  filter,        \* options.filter
  spawnFails,    \* leaves whose command cannot be launched (spawn error)
  phase,         \* position of run(): "new", "running", "threw", "done"
  runOk,         \* VerifyResult.ok once run() returned
  pathToKey, keyToPath, dependencies, reverseDeps,   \* tracker, set by initialize
  results, waiters, processes, killedPaths,          \* tracker, mutated while running
  pc,            \* per node: position of its runNode call
  pos,           \* per group: index of the child a sequential loop awaits
  ret,           \* per node: the TaskResult its runNode promise resolved with
  awaiting,      \* per node: the waitForResult promises still pending
  exec,          \* per node: what executeCommand resolved with
  signalled,     \* processes that were sent SIGTERM by treeKill
  count,         \* per node: number of onTaskStart / parse / onTaskComplete calls
  hist           \* history, per node: the failed results on record when its
                 \* process was spawned and when it finished, the order of
                 \* its runNode call's steps, what onTaskComplete was given

vars == <<tree, filter, spawnFails, phase, runOk, pathToKey, keyToPath,
          dependencies, reverseDeps, results, waiters, processes, killedPaths,
          pc, pos, ret, awaiting, exec, signalled, count, hist>>

(***************************************************************************)
(* Bounds of the checked inputs.                                           *)
(***************************************************************************)
MaxEdges == 1        \* reportingDependsOn entries declared in one tree
MaxDepLen == 2       \* length of one reportingDependsOn list (graph checks)
MaxSpawnFail == 1    \* leaves of one tree whose command fails to launch

(***************************************************************************)
(* Generic helpers.                                                        *)
(***************************************************************************)
Range(s) == {s[i] : i \in DOMAIN s}

NoPath == <<>>

EmptyMap == <<>>

Has(m, k) == k \in DOMAIN m

Put(m, k, v) == [x \in (DOMAIN m) \cup {k} |-> IF x = k THEN v ELSE m[x]]

Del(m, k) == [x \in (DOMAIN m) \ {k} |-> m[x]]

AppendNew(s, x) == IF x \in Range(s) THEN s ELSE Append(s, x)

IsPrefix(p, q) == Len(p) <= Len(q) /\ SubSeq(q, 1, Len(p)) = p

(***************************************************************************)
(* The task tree.  A tree is a record of tuples indexed by node number:    *)
(* key, run (has a command), kids (children, <<>> when absent), strategy,  *)
(* deps (reportingDependsOn), and top, the list handed to run().           *)
(***************************************************************************)
Nodes(t) == 1..Len(t.key)

BuildPath(parentPath, key) ==
  IF parentPath # <<>> THEN parentPath \o <<key>> ELSE <<key>>

ParentOf(t, n) ==
  IF \E p \in Nodes(t) : n \in Range(t.kids[p])
  THEN CHOOSE p \in Nodes(t) : n \in Range(t.kids[p])
  ELSE 0

RECURSIVE NodePath(_, _)
NodePath(t, n) ==
  BuildPath(IF ParentOf(t, n) = 0 THEN <<>> ELSE NodePath(t, ParentOf(t, n)),
            t.key[n])

(***************************************************************************)
(* ReportingDependencyTracker.initialize and what it calls.                *)
(***************************************************************************)
\* Mutant: the key match is tried before the path match.
ResolveDependency_KeyFirst(m, dep) ==
  IF Len(dep) = 1 /\ Has(m.keyToPath, dep[1]) THEN m.keyToPath[dep[1]]
  ELSE IF Has(m.pathToKey, dep) THEN dep
  ELSE NoPath

ResolveDependency(m, dep) ==
  IF Has(m.pathToKey, dep) THEN dep
  ELSE IF Len(dep) = 1 /\ Has(m.keyToPath, dep[1]) THEN m.keyToPath[dep[1]]
  ELSE NoPath

RECURSIVE InitializeNodes(_, _, _, _)
InitializeNodes(m, t, nodes, parentPath) ==
  IF nodes = <<>> THEN m
  ELSE
    LET node == Head(nodes)
        path == BuildPath(parentPath, t.key[node])
        m1 == [m EXCEPT !.pathToKey = Put(@, path, t.key[node]),
                        !.keyToPath = Put(@, t.key[node], path),
                        !.pathOrder = AppendNew(@, path)]
        m2 == IF Len(t.deps[node]) > 0
              THEN [m1 EXCEPT !.dependencies = Put(@, path, t.deps[node]),
                              !.depOrder = AppendNew(@, path)]
              ELSE m1
        m3 == IF t.kids[node] # <<>>
              THEN InitializeNodes(m2, t, t.kids[node], path)
              ELSE m2
    IN InitializeNodes(m3, t, Tail(nodes), parentPath)

WHITE == 0
GRAY == 1
BLACK == 2

\* Mutant: the loop appends the paths it walks instead of prepending them.
RECURSIVE ReconstructCycle_Appends(_, _, _, _, _)
ReconstructCycle_Appends(parent, current, depPath, cycle, fuel) ==
  IF current = depPath THEN <<depPath>> \o cycle
  ELSE IF fuel = 0 THEN <<>>
  ELSE ReconstructCycle_Appends(parent,
                                IF Has(parent, current) THEN parent[current] ELSE NoPath,
                                depPath, cycle \o <<current>>, fuel - 1)

\* The while loop that rebuilds the cycle; fuel bounds the walk up the parent
\* map, and <<>> is returned when it runs out (the loop would not end).
RECURSIVE ReconstructCycle(_, _, _, _, _)
ReconstructCycle(parent, current, depPath, cycle, fuel) ==
  IF current = depPath THEN <<depPath>> \o cycle
  ELSE IF fuel = 0 THEN <<>>
  ELSE ReconstructCycle(parent,
                        IF Has(parent, current) THEN parent[current] ELSE NoPath,
                        depPath, <<current>> \o cycle, fuel - 1)

RECURSIVE dfs(_, _, _)
RECURSIVE dfsDeps(_, _, _, _)
\* Mutant: any dependency already visited (GRAY or BLACK) counts as a cycle.
dfsDeps_VisitedIsCycle(m, st, path, deps) ==
  IF deps = <<>> THEN [st EXCEPT !.colors[path] = BLACK]
  ELSE
    LET depPath == ResolveDependency(m, Head(deps)) IN
    IF depPath = NoPath THEN dfsDeps(m, st, path, Tail(deps))
    ELSE
      LET color == IF Has(st.colors, depPath) THEN st.colors[depPath] ELSE WHITE IN
      IF color # WHITE
      THEN [st EXCEPT !.cycle = <<depPath, path, depPath>>, !.found = TRUE]
      ELSE LET st2 == dfs(m, [st EXCEPT !.parent = Put(@, depPath, path)], depPath)
           IN IF st2.found THEN st2 ELSE dfsDeps(m, st2, path, Tail(deps))

dfs(m, st, path) ==
  dfsDeps(m, [st EXCEPT !.colors[path] = GRAY], path,
          IF Has(m.dependencies, path) THEN m.dependencies[path] ELSE <<>>)

dfsDeps(m, st, path, deps) ==
  IF deps = <<>> THEN [st EXCEPT !.colors[path] = BLACK]
  ELSE
    LET depPath == ResolveDependency(m, Head(deps)) IN
    IF depPath = NoPath THEN dfsDeps(m, st, path, Tail(deps))
    ELSE
      LET color == IF Has(st.colors, depPath) THEN st.colors[depPath] ELSE WHITE IN
      IF color = GRAY
      THEN [st EXCEPT !.cycle = ReconstructCycle(st.parent, path, depPath,
                                                 <<depPath>>, Len(m.pathOrder) + 1),
                      !.found = TRUE]
      ELSE IF color = WHITE
      THEN LET st2 == dfs(m, [st EXCEPT !.parent = Put(@, depPath, path)], depPath)
           IN IF st2.found THEN st2 ELSE dfsDeps(m, st2, path, Tail(deps))
      ELSE dfsDeps(m, st, path, Tail(deps))

RECURSIVE validateRoots(_, _, _)
validateRoots(m, st, paths) ==
  IF paths = <<>> \/ st.found THEN st
  ELSE validateRoots(m,
                     IF st.colors[Head(paths)] = WHITE THEN dfs(m, st, Head(paths))
                     ELSE st,
                     Tail(paths))

\* The record the depth-first search ends with: found says whether it throws.
validateNoCycles(m) ==
  validateRoots(m,
                [colors |-> [p \in DOMAIN m.pathToKey |-> WHITE],
                 parent |-> EmptyMap, cycle |-> <<>>, found |-> FALSE],
                m.pathOrder)

RECURSIVE addReverse(_, _, _, _)
addReverse(m, rev, path, deps) ==
  IF deps = <<>> THEN rev
  ELSE LET resolvedDep == ResolveDependency(m, Head(deps))
           rev1 == IF resolvedDep # NoPath
                   THEN Put(rev, resolvedDep,
                            Append(IF Has(rev, resolvedDep) THEN rev[resolvedDep]
                                   ELSE <<>>, path))
                   ELSE rev
       IN addReverse(m, rev1, path, Tail(deps))

RECURSIVE buildReverseDeps(_, _, _)
buildReverseDeps(m, rev, paths) ==
  IF paths = <<>> THEN rev
  ELSE buildReverseDeps(m,
                        addReverse(m, rev, Head(paths), m.dependencies[Head(paths)]),
                        Tail(paths))

\* initialize(nodes) on a tracker whose maps are m0: the maps after the walk,
\* whether validateNoCycles threw, and the reverse map (built only if not).
initialize(m0, t) ==
  LET m == InitializeNodes(m0, t, t.top, <<>>)
      v == validateNoCycles(m)
  IN [pathToKey |-> m.pathToKey, keyToPath |-> m.keyToPath,
      dependencies |-> m.dependencies, pathOrder |-> m.pathOrder,
      depOrder |-> m.depOrder,
      threw |-> v.found, cycle |-> v.cycle,
      reverseDeps |-> IF v.found THEN m0.reverseDeps
                      ELSE buildReverseDeps(m, m0.reverseDeps, m.depOrder)]

(***************************************************************************)
(* The running program.  The operators below transform a record s holding  *)
(* the inputs (t, filter, spawnFails), the tracker's maps fixed by         *)
(* initialize (m) and every mutable field; an action applies one handler   *)
(* to the current state and commits the record it ends with.               *)
(***************************************************************************)
Strategy(t, n) == IF t.strategy[n] = "" THEN "parallel" ELSE t.strategy[n]

\* Mutant: only the exact match counts, not the prefix match.
matchesFilter_ExactOnly(path, filters) ==
  IF filters = <<>> THEN TRUE
  ELSE \E i \in DOMAIN filters : path = filters[i]

matchesFilter(path, filters) ==
  IF filters = <<>> THEN TRUE
  ELSE \E i \in DOMAIN filters :
         \/ path = filters[i]
         \/ IsPrefix(filters[i], path) /\ Len(path) > Len(filters[i])

RECURSIVE hasMatchingDescendant(_, _, _, _)
hasMatchingDescendant(t, node, parentPath, filters) ==
  LET path == BuildPath(parentPath, t.key[node]) IN
  IF matchesFilter(path, filters) THEN TRUE
  ELSE \E i \in DOMAIN t.kids[node] :
         hasMatchingDescendant(t, t.kids[node][i], path, filters)

\* Mutant: when the filter keeps no node, all nodes are run.
filteredNodes_AllWhenNoneMatch(s, nodes, parentPath) ==
  LET fn == SelectSeq(nodes, LAMBDA node :
                        hasMatchingDescendant(s.t, node, parentPath, s.filter))
  IN IF fn = <<>> THEN nodes ELSE fn

\* filteredNodes of runNodes(nodes, parentPath)
filteredNodes(s, nodes, parentPath) ==
  SelectSeq(nodes, LAMBDA node : hasMatchingDescendant(s.t, node, parentPath, s.filter))

hasDependencies(s, path) ==
  Has(s.m.dependencies, path) /\ Len(s.m.dependencies[path]) > 0

\* Mutant: the SIGTERM is sent but the path is not added to killedPaths.
killDependents_NoMark(s, failedPath) ==
  LET dependents == IF Has(s.m.reverseDeps, failedPath)
                    THEN s.m.reverseDeps[failedPath] ELSE <<>>
      hit == {depPath \in Range(dependents) :
                Has(s.processes, depPath) /\ s.processes[depPath].pid}
  IN [s EXCEPT !.signalled = @ \cup {s.processes[d].node : d \in hit}]

\* Mutant: every dependent is marked killed, registered or not.
killDependents_MarksUnregistered(s, failedPath) ==
  LET dependents == IF Has(s.m.reverseDeps, failedPath)
                    THEN s.m.reverseDeps[failedPath] ELSE <<>>
      hit == {depPath \in Range(dependents) :
                Has(s.processes, depPath) /\ s.processes[depPath].pid}
  IN [s EXCEPT !.killedPaths = @ \cup Range(dependents),
               !.signalled = @ \cup {s.processes[d].node : d \in hit}]

\* Mutant: the loop over the dependents stops after the first one.
killDependents_FirstDependentOnly(s, failedPath) ==
  LET dependents == IF Has(s.m.reverseDeps, failedPath)
                    THEN s.m.reverseDeps[failedPath] ELSE <<>>
      first == IF dependents = <<>> THEN {} ELSE {dependents[1]}
      hit == {depPath \in first :
                Has(s.processes, depPath) /\ s.processes[depPath].pid}
  IN [s EXCEPT !.killedPaths = @ \cup hit,
               !.signalled = @ \cup {s.processes[d].node : d \in hit}]

\* Mutant: every registered process is killed, dependent or not.
killDependents_AllRegistered(s, failedPath) ==
  LET hit == {depPath \in DOMAIN s.processes : s.processes[depPath].pid}
  IN [s EXCEPT !.killedPaths = @ \cup hit,
               !.signalled = @ \cup {s.processes[d].node : d \in hit}]

killDependents(s, failedPath) ==
  LET dependents == IF Has(s.m.reverseDeps, failedPath)
                    THEN s.m.reverseDeps[failedPath] ELSE <<>>
      hit == {depPath \in Range(dependents) :
                Has(s.processes, depPath) /\ s.processes[depPath].pid}
  IN [s EXCEPT !.killedPaths = @ \cup hit,
               !.signalled = @ \cup {s.processes[d].node : d \in hit}]

\* Calling every resolve callback registered under id, then waiters.delete(id).
notifyWaiters(s, id) ==
  LET ws == IF Has(s.waiters, id) THEN Range(s.waiters[id]) ELSE {} IN
  [s EXCEPT !.awaiting = [n \in DOMAIN @ |->
                            @[n] \ {w.i : w \in {x \in ws : x.node = n}}],
            !.waiters = Del(@, id)]

\* Mutant: dependents are killed whatever the recorded result is.
recordResult_KillsOnAnyResult(s, result) ==
  LET s1 == [s EXCEPT !.results = Put(@, result.path, result)]
      s2 == killDependents(s1, result.path)
      s3 == notifyWaiters(s2, result.path)
  IN IF <<result.key>> # result.path THEN notifyWaiters(s3, <<result.key>>) ELSE s3

recordResult(s, result) ==
  LET s1 == [s EXCEPT !.results = Put(@, result.path, result)]
      s2 == IF ~result.ok THEN killDependents(s1, result.path) ELSE s1
      s3 == notifyWaiters(s2, result.path)
  IN IF <<result.key>> # result.path THEN notifyWaiters(s3, <<result.key>>) ELSE s3

\* waitForResult for the i-th identifier of node's list: an already resolved
\* promise, or a waiter registered under the identifier as written.
waitForResult(s, node, i, pathOrKey) ==
  LET resolvedPath == ResolveDependency(s.m, pathOrKey) IN
  IF resolvedPath # NoPath /\ Has(s.results, resolvedPath) THEN s
  ELSE IF Has(s.results, pathOrKey) THEN s
  ELSE [s EXCEPT !.waiters = Put(@, pathOrKey,
                                 Append(IF Has(@, pathOrKey) THEN @[pathOrKey]
                                        ELSE <<>>,
                                        [node |-> node, i |-> i])),
                 !.awaiting[node] = @ \cup {i}]

RECURSIVE waitAll(_, _, _, _)
waitAll(s, node, deps, i) ==
  IF i > Len(deps) THEN s
  ELSE waitAll(waitForResult(s, node, i, deps[i]), node, deps, i + 1)

\* waitForDependencies up to its await: awaiting[node] holds the promises of
\* Promise.all that are still pending.
waitForDependencies(s, node, path) ==
  IF ~hasDependencies(s, path) THEN s
  ELSE waitAll(s, node, s.m.dependencies[path], 1)

\* Mutant: the loop keeps going and the last failed dependency wins.
RECURSIVE firstFailed_Last(_, _)
firstFailed_Last(s, deps) ==
  IF deps = <<>> THEN NoPath
  ELSE LET resolvedPath == ResolveDependency(s.m, Head(deps))
           later == firstFailed_Last(s, Tail(deps))
       IN IF later # NoPath THEN later
          ELSE IF resolvedPath # NoPath /\ Has(s.results, resolvedPath)
                  /\ ~s.results[resolvedPath].ok
               THEN resolvedPath
               ELSE NoPath

RECURSIVE firstFailed(_, _)
firstFailed(s, deps) ==
  IF deps = <<>> THEN NoPath
  ELSE LET resolvedPath == ResolveDependency(s.m, Head(deps)) IN
       IF resolvedPath # NoPath /\ Has(s.results, resolvedPath)
          /\ ~s.results[resolvedPath].ok
       THEN resolvedPath
       ELSE firstFailed(s, Tail(deps))

getFailedDependency(s, path) ==
  IF ~hasDependencies(s, path) THEN NoPath
  ELSE firstFailed(s, s.m.dependencies[path])

Unknown == <<"unknown">>

FailedPaths(s) == {p \in DOMAIN s.results : ~s.results[p].ok}

TaskResult(key, path, ok, code, suppressed, suppressedBy, children) ==
  [key |-> key, path |-> path, ok |-> ok, code |-> code,
   suppressed |-> suppressed, suppressedBy |-> suppressedBy,
   children |-> children]

\* Mutant: the result is reported first and recorded afterwards.
emit_ReportsFirst(s, node, result) ==
  LET s1 == [recordResult(s, result) EXCEPT
               !.hist[node].events = @ \o <<"complete", "record">>]
  IN [s1 EXCEPT !.count[node].complete = @ + 1,
                !.hist[node].reported = <<result>>,
                !.ret = Put(@, node, result),
                !.pc[node] = "returned"]

\* The last three statements of every branch of runNode: record, report, return.
emit(s, node, result) ==
  LET s1 == [recordResult(s, result) EXCEPT
               !.hist[node].events = Append(@, "record")]
  IN [s1 EXCEPT !.count[node].complete = @ + 1,
                !.hist[node].events = Append(@, "complete"),
                !.hist[node].reported = <<result>>,
                !.ret = Put(@, node, result),
                !.pc[node] = "returned"]

\* Mutant: one suppressed child is enough to suppress the group.
groupResult_AnySuppressed(s, node, childResults) ==
  LET allOk == \A i \in DOMAIN childResults :
                 childResults[i].ok \/ childResults[i].suppressed
      allSuppressed == \E i \in DOMAIN childResults : childResults[i].suppressed
  IN TaskResult(s.t.key[node], s.t.path[node], allOk, IF allOk THEN 0 ELSE 1,
                allSuppressed,
                IF allSuppressed THEN childResults[1].suppressedBy ELSE NoPath,
                childResults)

\* Mutant: a suppressed child counts against the group's ok.
groupResult_OkOnly(s, node, childResults) ==
  LET allOk == \A i \in DOMAIN childResults : childResults[i].ok
      allSuppressed == Len(childResults) > 0
                       /\ \A i \in DOMAIN childResults : childResults[i].suppressed
  IN TaskResult(s.t.key[node], s.t.path[node], allOk, IF allOk THEN 0 ELSE 1,
                allSuppressed,
                IF allSuppressed THEN childResults[1].suppressedBy ELSE NoPath,
                childResults)

\* The group branch of runNode after its children's results are in.
groupResult(s, node, childResults) ==
  LET allOk == \A i \in DOMAIN childResults :
                 childResults[i].ok \/ childResults[i].suppressed
      allSuppressed == Len(childResults) > 0
                       /\ \A i \in DOMAIN childResults : childResults[i].suppressed
  IN TaskResult(s.t.key[node], s.t.path[node], allOk, IF allOk THEN 0 ELSE 1,
                allSuppressed,
                IF allSuppressed THEN childResults[1].suppressedBy ELSE NoPath,
                childResults)

\* runNode(node, parentPath) and runNodes(nodes, parentPath, strategy) up to
\* their first await.
RECURSIVE runNode(_, _, _)
RECURSIVE runNodesSeq(_, _, _)
\* Mutant: a parallel group runs its children one after the other.
runNodes_OneAtATime(s, owner, nodes, parentPath, strategy) ==
  LET fn == filteredNodes(s, nodes, parentPath) IN
  IF fn = <<>> THEN s
  ELSE runNode([s EXCEPT !.pos[owner] = 1], fn[1], parentPath)

\* Mutant: every strategy starts all the children at once.
runNodes_AllAtOnce(s, owner, nodes, parentPath, strategy) ==
  LET fn == filteredNodes(s, nodes, parentPath) IN
  IF fn = <<>> THEN s
  ELSE runNodesSeq([s EXCEPT !.pos[owner] = 1], fn, parentPath)

runNodes(s, owner, nodes, parentPath, strategy) ==
  LET fn == filteredNodes(s, nodes, parentPath) IN
  IF fn = <<>> THEN s
  ELSE IF strategy = "parallel" THEN runNodesSeq(s, fn, parentPath)
  ELSE runNode([s EXCEPT !.pos[owner] = 1], fn[1], parentPath)

runNodesSeq(s, nodes, parentPath) ==
  IF nodes = <<>> THEN s
  ELSE runNodesSeq(runNode(s, Head(nodes), parentPath), Tail(nodes), parentPath)

\* Mutant: onTaskStart is called after the process was launched or the
\* children were entered.
runNode_StartsLate(s, node, parentPath) ==
  LET path == BuildPath(parentPath, s.t.key[node])
      s1 == [s EXCEPT !.count[node].start = @ + 1]
  IN IF Len(s.t.kids[node]) > 0
     THEN [runNodes([s1 EXCEPT !.pc[node] = "children",
                               !.hist[node].events = Append(@, "recurse")],
                    node, s.t.kids[node], path, Strategy(s.t, node))
             EXCEPT !.hist[node].events = Append(@, "start")]
     ELSE IF ~s.t.run[node]
     THEN emit([s1 EXCEPT !.hist[node].events = Append(@, "start")], node,
               TaskResult(s.t.key[node], path, TRUE, 0, FALSE, NoPath, <<>>))
     ELSE [s1 EXCEPT !.processes = Put(@, path, [node |-> node,
                                                  pid |-> node \notin s.spawnFails]),
                     !.pc[node] = "proc",
                     !.hist[node].events = @ \o <<"spawn", "start">>,
                     !.hist[node].atSpawn = FailedPaths(s)]

runNode(s, node, parentPath) ==
  LET path == BuildPath(parentPath, s.t.key[node])
      s1 == [s EXCEPT !.count[node].start = @ + 1,
                      !.hist[node].events = Append(@, "start")]
  IN IF Len(s.t.kids[node]) > 0
     THEN runNodes([s1 EXCEPT !.pc[node] = "children",
                              !.hist[node].events = Append(@, "recurse")],
                   node, s.t.kids[node], path, Strategy(s.t, node))
     ELSE IF ~s.t.run[node]
     THEN emit(s1, node, TaskResult(s.t.key[node], path, TRUE, 0, FALSE, NoPath, <<>>))
     ELSE [s1 EXCEPT !.processes = Put(@, path, [node |-> node,
                                                  pid |-> node \notin s.spawnFails]),
                     !.pc[node] = "proc",
                     !.hist[node].events = Append(@, "spawn"),
                     !.hist[node].atSpawn = FailedPaths(s)]

\* Mutant: the output is parsed before the killed flag is looked at.
afterExecute_ParsesAlways(s, node, code, killed) ==
  LET path == s.t.path[node]
      s1 == [s EXCEPT !.exec[node] = [code |-> code, killed |-> killed],
                      !.hist[node].events = Append(@, "exit"),
                      !.hist[node].atExit = FailedPaths(s),
                      !.count[node].parse = @ + 1]
  IN IF killed
     THEN [waitForDependencies(s1, node, path) EXCEPT
             !.pc[node] = "waitKilled",
             !.hist[node].events = Append(@, "wait")]
     ELSE IF hasDependencies(s1, path)
          THEN [waitForDependencies(s1, node, path) EXCEPT
                  !.pc[node] = "waitDeps",
                  !.hist[node].events = Append(@, "wait")]
          ELSE emit(s1, node, TaskResult(s.t.key[node], path, code = 0, code,
                                         FALSE, NoPath, <<>>))

\* runNode from the point executeCommand resolved with {code, killed}.
afterExecute(s, node, code, killed) ==
  LET path == s.t.path[node]
      s1 == [s EXCEPT !.exec[node] = [code |-> code, killed |-> killed],
                      !.hist[node].events = Append(@, "exit"),
                      !.hist[node].atExit = FailedPaths(s)]
  IN IF killed
     THEN [waitForDependencies(s1, node, path) EXCEPT
             !.pc[node] = "waitKilled",
             !.hist[node].events = Append(@, "wait")]
     ELSE LET s2 == [s1 EXCEPT !.count[node].parse = @ + 1] IN
          IF hasDependencies(s2, path)
          THEN [waitForDependencies(s2, node, path) EXCEPT
                  !.pc[node] = "waitDeps",
                  !.hist[node].events = Append(@, "wait")]
          ELSE emit(s2, node, TaskResult(s.t.key[node], path, code = 0, code,
                                         FALSE, NoPath, <<>>))

\* Mutant: a failed task with dependencies is suppressed whatever the
\* dependencies' results are.
afterWait_SuppressAnyFailure(s, node) ==
  LET path == s.t.path[node]
      code == s.exec[node].code
      ok == code = 0
      failedDep == getFailedDependency(s, path)
  IN IF s.pc[node] = "waitKilled"
     THEN emit(s, node, TaskResult(s.t.key[node], path, FALSE, code, TRUE,
                                   IF failedDep # NoPath THEN failedDep ELSE Unknown,
                                   <<>>))
     ELSE IF ~ok
     THEN emit(s, node, TaskResult(s.t.key[node], path, ok, code, TRUE, failedDep, <<>>))
     ELSE emit(s, node, TaskResult(s.t.key[node], path, ok, code, FALSE, NoPath, <<>>))

\* runNode from the point its await of waitForDependencies resumed.
afterWait(s, node) ==
  LET path == s.t.path[node]
      code == s.exec[node].code
      ok == code = 0
      failedDep == getFailedDependency(s, path)
  IN IF s.pc[node] = "waitKilled"
     THEN emit(s, node, TaskResult(s.t.key[node], path, FALSE, code, TRUE,
                                   IF failedDep # NoPath THEN failedDep ELSE Unknown,
                                   <<>>))
     ELSE IF ~ok /\ failedDep # NoPath
     THEN emit(s, node, TaskResult(s.t.key[node], path, ok, code, TRUE, failedDep, <<>>))
     ELSE emit(s, node, TaskResult(s.t.key[node], path, ok, code, FALSE, NoPath, <<>>))

(***************************************************************************)
(* State, inputs and actions.                                              *)
(***************************************************************************)
Cur ==
  [t |-> tree, filter |-> filter, spawnFails |-> spawnFails,
   m |-> [pathToKey |-> pathToKey, keyToPath |-> keyToPath,
          dependencies |-> dependencies, reverseDeps |-> reverseDeps],
   results |-> results, waiters |-> waiters, processes |-> processes,
   killedPaths |-> killedPaths, pc |-> pc, pos |-> pos, ret |-> ret,
   awaiting |-> awaiting, exec |-> exec, signalled |-> signalled,
   count |-> count, hist |-> hist]

Commit(s) ==
  /\ results' = s.results
  /\ waiters' = s.waiters
  /\ processes' = s.processes
  /\ killedPaths' = s.killedPaths
  /\ pc' = s.pc
  /\ pos' = s.pos
  /\ ret' = s.ret
  /\ awaiting' = s.awaiting
  /\ exec' = s.exec
  /\ signalled' = s.signalled
  /\ count' = s.count
  /\ hist' = s.hist

Inputs == <<tree, filter, spawnFails>>

Tracker == <<pathToKey, keyToPath, dependencies, reverseDeps>>

\* Input trees: a shape gives keys, commands and children; MkTree adds the
\* strategies and the reportingDependsOn lists.
MkTree(sh, strategy, deps) ==
  [key |-> sh.key, run |-> sh.run, kids |-> sh.kids, top |-> sh.top,
   strategy |-> strategy, deps |-> deps,
   path |-> [n \in 1..Len(sh.key) |-> NodePath(sh, n)]]

\* [a, b]
Flat2 ==
  [key |-> <<"a", "b">>, run |-> <<TRUE, TRUE>>,
   kids |-> <<<<>>, <<>>>>, top |-> <<1, 2>>]

\* [a, b, c]
Flat3 ==
  [key |-> <<"a", "b", "c">>, run |-> <<TRUE, TRUE, TRUE>>,
   kids |-> <<<<>>, <<>>, <<>>>>, top |-> <<1, 2, 3>>]

\* [g: [a, b, c]]
Group3 ==
  [key |-> <<"g", "a", "b", "c">>, run |-> <<FALSE, TRUE, TRUE, TRUE>>,
   kids |-> <<<<2, 3, 4>>, <<>>, <<>>, <<>>>>, top |-> <<1>>]

\* [a, g: [h: [b], n]] with n a leaf without a command
Nested ==
  [key |-> <<"a", "g", "h", "b", "n">>,
   run |-> <<TRUE, FALSE, FALSE, TRUE, FALSE>>,
   kids |-> <<<<>>, <<3, 5>>, <<4>>, <<>>, <<>>>>, top |-> <<1, 2>>]

\* [] : no task at all
Empty ==
  [key |-> <<>>, run |-> <<>>, kids |-> <<>>, top |-> <<>>]

Shapes == {Empty, Flat2, Group3, Nested}

Strategies == {"parallel", "sequential", "fail-fast"}

\* A strategy is chosen for every group with two or more children.
StrategyChoices(sh) ==
  {st \in [1..Len(sh.key) -> Strategies \cup {""}] :
     \A n \in 1..Len(sh.key) : (st[n] = "") <=> (Len(sh.kids[n]) < 2)}

\* Identifiers a reportingDependsOn entry may hold: every path, every key,
\* and one string that names nothing.
Idents(sh) ==
  {NodePath(sh, n) : n \in 1..Len(sh.key)}
    \cup {<<sh.key[n]>> : n \in 1..Len(sh.key)} \cup {<<"zz">>}

NoDeps(sh) == [n \in 1..Len(sh.key) |-> <<>>]

RECURSIVE DepChoices(_, _)
DepChoices(sh, k) ==
  IF k = 0 THEN {NoDeps(sh)}
  ELSE LET D == DepChoices(sh, k - 1) IN
       D \cup {[d EXCEPT ![n] = Append(@, id)] :
                 d \in D, n \in 1..Len(sh.key), id \in Idents(sh)}

Leaves(t) == {n \in Nodes(t) : Len(t.kids[n]) = 0 /\ t.run[n]}

InitRun ==
  /\ phase = "new"
  /\ runOk = FALSE
  /\ pathToKey = EmptyMap
  /\ keyToPath = EmptyMap
  /\ dependencies = EmptyMap
  /\ reverseDeps = EmptyMap
  /\ results = EmptyMap
  /\ waiters = EmptyMap
  /\ processes = EmptyMap
  /\ killedPaths = {}
  /\ pc = [n \in Nodes(tree) |-> "idle"]
  /\ pos = [n \in Nodes(tree) |-> 0]
  /\ ret = EmptyMap
  /\ awaiting = [n \in Nodes(tree) |-> {}]
  /\ exec = [n \in Nodes(tree) |-> [code |-> 0, killed |-> FALSE]]
  /\ signalled = {}
  /\ count = [n \in Nodes(tree) |-> [start |-> 0, parse |-> 0, complete |-> 0]]
  /\ hist = [n \in Nodes(tree) |-> [atSpawn |-> {}, atExit |-> {},
                                     events |-> <<>>, reported |-> <<>>]]

Init ==
  /\ \E sh \in Shapes : \E st \in StrategyChoices(sh) :
       \E d \in DepChoices(sh, MaxEdges) : tree = MkTree(sh, st, d)
  /\ filter = <<>>
  /\ spawnFails \in {f \in SUBSET Leaves(tree) : Cardinality(f) <= MaxSpawnFail}
  /\ InitRun

\* Mutant: run() starts the tasks and validates the graph afterwards.
Run_StartsBeforeValidating ==
  /\ phase = "new"
  /\ LET i == initialize([pathToKey |-> pathToKey, keyToPath |-> keyToPath,
                          dependencies |-> dependencies,
                          reverseDeps |-> reverseDeps,
                          pathOrder |-> <<>>, depOrder |-> <<>>], tree)
     IN /\ pathToKey' = i.pathToKey
        /\ keyToPath' = i.keyToPath
        /\ dependencies' = i.dependencies
        /\ reverseDeps' = i.reverseDeps
        /\ phase' = IF i.threw THEN "threw" ELSE "running"
        /\ Commit(runNodes([Cur EXCEPT !.m = [pathToKey |-> i.pathToKey,
                                              keyToPath |-> i.keyToPath,
                                              dependencies |-> i.dependencies,
                                              reverseDeps |-> i.reverseDeps]],
                           0, tree.top, <<>>, "parallel"))
  /\ UNCHANGED <<Inputs, runOk>>

\* run(tasks) up to its await of runNodes.
Run ==
  /\ phase = "new"
  /\ LET i == initialize([pathToKey |-> pathToKey, keyToPath |-> keyToPath,
                          dependencies |-> dependencies,
                          reverseDeps |-> reverseDeps,
                          pathOrder |-> <<>>, depOrder |-> <<>>], tree)
     IN /\ pathToKey' = i.pathToKey
        /\ keyToPath' = i.keyToPath
        /\ dependencies' = i.dependencies
        /\ reverseDeps' = i.reverseDeps
        /\ IF i.threw
           THEN /\ phase' = "threw"
                /\ Commit(Cur)
           ELSE /\ phase' = "running"
                /\ Commit(runNodes([Cur EXCEPT !.m = [pathToKey |-> i.pathToKey,
                                                      keyToPath |-> i.keyToPath,
                                                      dependencies |-> i.dependencies,
                                                      reverseDeps |-> i.reverseDeps]],
                                   0, tree.top, <<>>, "parallel"))
  /\ UNCHANGED <<Inputs, runOk>>

\* Continuations that are ready to run: they run before any process event.
ResumeReady(n) ==
  pc[n] \in {"waitKilled", "waitDeps"} /\ awaiting[n] = {}

GroupReady(g) ==
  /\ pc[g] = "children"
  /\ LET fn == filteredNodes(Cur, tree.kids[g], tree.path[g]) IN
     IF Strategy(tree, g) = "parallel" \/ fn = <<>>
     THEN \A i \in DOMAIN fn : pc[fn[i]] = "returned"
     ELSE pc[fn[pos[g]]] = "returned"

RunReady ==
  /\ phase = "running"
  /\ \A n \in Range(filteredNodes(Cur, tree.top, <<>>)) : pc[n] = "returned"

ErrorReady(n) ==
  pc[n] = "proc" /\ n \in spawnFails

JobPending ==
  \/ RunReady
  \/ \E n \in Nodes(tree) : ResumeReady(n) \/ GroupReady(n) \/ ErrorReady(n)

\* Mutant: the 'error' handler reports the task as killed.
ProcError_Terminated(n) ==
  /\ phase = "running"
  /\ ErrorReady(n)
  /\ Commit(afterExecute([Cur EXCEPT !.processes = Del(@, tree.path[n])], n, 1, TRUE))
  /\ UNCHANGED <<Inputs, Tracker, phase, runOk>>

\* Mutant: the 'error' handler leaves the process handle registered.
ProcError_KeepsHandle(n) ==
  /\ phase = "running"
  /\ ErrorReady(n)
  /\ Commit(afterExecute(Cur, n, 1, FALSE))
  /\ UNCHANGED <<Inputs, Tracker, phase, runOk>>

\* The 'error' handler of executeCommand and the continuation of runNode.
ProcError(n) ==
  /\ phase = "running"
  /\ ErrorReady(n)
  /\ Commit(afterExecute([Cur EXCEPT !.processes = Del(@, tree.path[n])], n, 1, FALSE))
  /\ UNCHANGED <<Inputs, Tracker, phase, runOk>>

ExitCodes == {0, 1, 143}

\* The 'close' handler of executeCommand and the continuation of runNode.  The
\* process ends by itself with an exit code, or by the SIGTERM it was sent.
ProcClose(n) ==
  /\ phase = "running"
  /\ pc[n] = "proc"
  /\ n \notin spawnFails
  /\ ~JobPending
  /\ \E signal \in {"", "SIGTERM"} : \E exit \in ExitCodes :
       /\ signal = "SIGTERM" => n \in signalled /\ exit = 1
       /\ LET s1 == [Cur EXCEPT !.processes = Del(@, tree.path[n])]
              killed == \/ signal = "SIGTERM"
                        \/ exit = 143
                        \/ tree.path[n] \in s1.killedPaths
          IN Commit(afterExecute(s1, n, exit, killed))
  /\ UNCHANGED <<Inputs, Tracker, phase, runOk>>

\* runNode resumes after await waitForDependencies.
Resume(n) ==
  /\ phase = "running"
  /\ ResumeReady(n)
  /\ Commit(afterWait(Cur, n))
  /\ UNCHANGED <<Inputs, Tracker, phase, runOk>>

\* Mutant: the fail-fast loop has no break.
GroupStep_NoBreak(g) ==
  /\ phase = "running"
  /\ GroupReady(g)
  /\ LET fn == filteredNodes(Cur, tree.kids[g], tree.path[g])
         done == IF Strategy(tree, g) = "parallel" \/ fn = <<>>
                 THEN Len(fn) ELSE pos[g]
         last == done = Len(fn)
     IN IF last
        THEN Commit(emit(Cur, g, groupResult(Cur, g,
                                             [i \in 1..done |-> ret[fn[i]]])))
        ELSE Commit(runNode([Cur EXCEPT !.pos[g] = done + 1], fn[done + 1],
                            tree.path[g]))
  /\ UNCHANGED <<Inputs, Tracker, phase, runOk>>

\* runNodes / the group branch of runNode resume after a child returned.
GroupStep(g) ==
  /\ phase = "running"
  /\ GroupReady(g)
  /\ LET fn == filteredNodes(Cur, tree.kids[g], tree.path[g])
         done == IF Strategy(tree, g) = "parallel" \/ fn = <<>>
                 THEN Len(fn) ELSE pos[g]
         last == \/ done = Len(fn)
                 \/ Strategy(tree, g) = "fail-fast" /\ ~ret[fn[done]].ok
     IN IF last
        THEN Commit(emit(Cur, g, groupResult(Cur, g,
                                             [i \in 1..done |-> ret[fn[i]]])))
        ELSE Commit(runNode([Cur EXCEPT !.pos[g] = done + 1], fn[done + 1],
                            tree.path[g]))
  /\ UNCHANGED <<Inputs, Tracker, phase, runOk>>

\* run() resumes after await runNodes and returns the VerifyResult.
\* Mutant: a run without any task result does not pass.
RunReturn_NeedsAResult ==
  /\ RunReady
  /\ phase' = "done"
  /\ runOk' = /\ filteredNodes(Cur, tree.top, <<>>) # <<>>
              /\ \A n \in Range(filteredNodes(Cur, tree.top, <<>>)) : ret[n].ok
  /\ UNCHANGED <<Inputs, Tracker, results, waiters, processes, killedPaths,
                 pc, pos, ret, awaiting, exec, signalled, count, hist>>

RunReturn ==
  /\ RunReady
  /\ phase' = "done"
  /\ runOk' = \A n \in Range(filteredNodes(Cur, tree.top, <<>>)) : ret[n].ok
  /\ UNCHANGED <<Inputs, Tracker, results, waiters, processes, killedPaths,
                 pc, pos, ret, awaiting, exec, signalled, count, hist>>

\* tracker.initialize(nodes) called on a fresh tracker, as the tracker's own
\* tests call it.
Initialize ==
  /\ phase = "new"
  /\ LET i == initialize([pathToKey |-> pathToKey, keyToPath |-> keyToPath,
                          dependencies |-> dependencies,
                          reverseDeps |-> reverseDeps,
                          pathOrder |-> <<>>, depOrder |-> <<>>], tree)
     IN /\ pathToKey' = i.pathToKey
        /\ keyToPath' = i.keyToPath
        /\ dependencies' = i.dependencies
        /\ reverseDeps' = i.reverseDeps
        /\ phase' = IF i.threw THEN "threw" ELSE "initialized"
  /\ UNCHANGED <<Inputs, runOk, results, waiters, processes, killedPaths,
                 pc, pos, ret, awaiting, exec, signalled, count, hist>>

Next ==
  \/ Run
  \/ \E n \in Nodes(tree) : ProcError(n)
  \/ \E n \in Nodes(tree) : ProcClose(n)
  \/ \E n \in Nodes(tree) : Resume(n)
  \/ \E n \in Nodes(tree) : GroupStep(n)
  \/ RunReturn

Spec == Init /\ [][Next]_vars

(***************************************************************************)
(* run() called again on the same VerificationRunner once the previous     *)
(* call has returned.  The locals of run/runNodes/runNode are new in every *)
(* call; the tracker is the object the constructor made.                   *)
(***************************************************************************)
MaxRuns == 2         \* calls of run() on one runner

\* [g: [a, b]]
GroupPair ==
  [key |-> <<"g", "a", "b">>, run |-> <<FALSE, TRUE, TRUE>>,
   kids |-> <<<<2, 3>>, <<>>, <<>>>>, top |-> <<1>>]

Rerun ==
  /\ phase = "done"
  /\ \A n \in Nodes(tree) : count[n].start < MaxRuns
  /\ LET fresh == [Cur EXCEPT
                     !.pc = [n \in Nodes(tree) |-> "idle"],
                     !.pos = [n \in Nodes(tree) |-> 0],
                     !.ret = EmptyMap,
                     !.awaiting = [n \in Nodes(tree) |-> {}],
                     !.exec = [n \in Nodes(tree) |-> [code |-> 0, killed |-> FALSE]],
                     !.signalled = {},
                     !.hist = [n \in Nodes(tree) |->
                                 [atSpawn |-> {}, atExit |-> {},
                                  events |-> <<>>, reported |-> <<>>]]]
         i == initialize([pathToKey |-> pathToKey, keyToPath |-> keyToPath,
                          dependencies |-> dependencies,
                          reverseDeps |-> reverseDeps,
                          pathOrder |-> <<>>, depOrder |-> <<>>], tree)
     IN /\ pathToKey' = i.pathToKey
        /\ keyToPath' = i.keyToPath
        /\ dependencies' = i.dependencies
        /\ reverseDeps' = i.reverseDeps
        /\ IF i.threw
           THEN /\ phase' = "threw"
                /\ Commit(fresh)
           ELSE /\ phase' = "running"
                /\ Commit(runNodes([fresh EXCEPT !.m = [pathToKey |-> i.pathToKey,
                                                        keyToPath |-> i.keyToPath,
                                                        dependencies |-> i.dependencies,
                                                        reverseDeps |-> i.reverseDeps]],
                                   0, tree.top, <<>>, "parallel"))
  /\ runOk' = FALSE
  /\ UNCHANGED Inputs

InitRerun ==
  /\ \E st \in StrategyChoices(GroupPair) :
       \E d \in DepChoices(GroupPair, MaxEdges) : tree = MkTree(GroupPair, st, d)
  /\ filter = <<>>
  /\ spawnFails \in {f \in SUBSET Leaves(tree) : Cardinality(f) <= MaxSpawnFail}
  /\ InitRun

NextRerun == Next \/ Rerun

SpecRerun == InitRerun /\ [][NextRerun]_vars

\* Dependency graphs for the checks of initialize: every node of the shape
\* declares any list of at most MaxDepLen different identifiers.
\* [a, g: [a]]: the key a occurs twice
DupKey ==
  [key |-> <<"a", "g", "a">>, run |-> <<TRUE, FALSE, TRUE>>,
   kids |-> <<<<>>, <<3>>, <<>>>>, top |-> <<1, 2>>]

GraphShapes == {Flat3, DupKey}

\* [g: [x], h: [x]]: the key x names two nodes and is no path
TwoGroups ==
  [key |-> <<"g", "x", "h", "x">>, run |-> <<FALSE, TRUE, FALSE, TRUE>>,
   kids |-> <<<<2>>, <<>>, <<4>>, <<>>>>, top |-> <<1, 3>>]

RECURSIVE SeqsUpTo(_, _)
SeqsUpTo(S, k) ==
  IF k = 0 THEN {<<>>}
  ELSE LET P == SeqsUpTo(S, k - 1) IN
       P \cup UNION {{Append(q, x) : x \in S \ Range(q)} :
                       q \in {r \in P : Len(r) = k - 1}}

InitGraph ==
  /\ \/ \E sh \in GraphShapes :
          \E d \in [1..Len(sh.key) -> SeqsUpTo(Idents(sh), MaxDepLen)] :
            tree = MkTree(sh, [n \in 1..Len(sh.key) |-> ""], d)
     \/ \E d \in DepChoices(TwoGroups, MaxEdges) :
          tree = MkTree(TwoGroups, [n \in 1..Len(TwoGroups.key) |-> ""], d)
  /\ filter = <<>>
  /\ spawnFails = {}
  /\ InitRun

NextGraph == Initialize

SpecGraph == InitGraph /\ [][NextGraph]_vars

(***************************************************************************)
(* Runs with options.filter set: the tree [a, g: [h: [b], n]] without      *)
(* reporting dependencies, filtered by up to MaxFilters entries that are   *)
(* node paths, a key that is no path, or strings that name nothing.        *)
(***************************************************************************)
MaxFilters == 1      \* entries of options.filter

FilterEntries(sh) ==
  {NodePath(sh, n) : n \in 1..Len(sh.key)}
    \cup {<<"h">>, <<"zz">>, <<"g", "zz">>}

InitFilter ==
  /\ \E st \in StrategyChoices(Nested) : tree = MkTree(Nested, st, NoDeps(Nested))
  /\ filter \in SeqsUpTo(FilterEntries(Nested), MaxFilters) \ {<<>>}
  /\ spawnFails \in {f \in SUBSET Leaves(tree) : Cardinality(f) <= MaxSpawnFail}
  /\ InitRun

SpecFilter == InitFilter /\ [][Next]_vars

\* Filtered runs of [a, g: [h: [b], n]] in which one task with a command
\* declares the path of another node as its reporting dependency.
OneLeafDep(sh) ==
  {[NoDeps(sh) EXCEPT ![n] = <<NodePath(sh, k)>>] :
     n \in {i \in 1..Len(sh.key) : sh.run[i]}, k \in 1..Len(sh.key)}

InitFilterDeps ==
  /\ \E st \in StrategyChoices(Nested) : \E d \in OneLeafDep(Nested) :
       tree = MkTree(Nested, st, d)
  /\ filter \in SeqsUpTo(FilterEntries(Nested), MaxFilters) \ {<<>>}
  /\ spawnFails \in {f \in SUBSET Leaves(tree) : Cardinality(f) <= MaxSpawnFail}
  /\ InitRun

SpecFilterDeps == InitFilterDeps /\ [][Next]_vars

(***************************************************************************)
(* The tracker driven through its public methods, as its own tests drive   *)
(* it: initialize, then recordResult, waitForDependencies,                 *)
(* registerProcess, unregisterProcess and killDependents in any order.     *)
(***************************************************************************)
MaxRecords == 2      \* recordResult calls made on one tracker

\* [a, g: [a], b]: the key a occurs under two parents
DupKey3 ==
  [key |-> <<"a", "g", "a", "b">>, run |-> <<TRUE, FALSE, TRUE, TRUE>>,
   kids |-> <<<<>>, <<3>>, <<>>, <<>>>>, top |-> <<1, 2, 4>>]

\* c depends on b, b depends on a
Chain ==
  MkTree(Flat3, [n \in 1..3 |-> ""], <<<<>>, <<<<"a">>>>, <<<<"b">>>>>>)

\* c depends on a and on b
Fan ==
  MkTree(Flat3, [n \in 1..3 |-> ""], <<<<>>, <<>>, <<<<"a">>, <<"b">>>>>>)

\* b and c both depend on a
Shared ==
  MkTree(Flat3, [n \in 1..3 |-> ""], <<<<>>, <<<<"a">>>>, <<<<"a">>>>>>)

\* b depends on "a"
DupDep ==
  MkTree(DupKey3, [n \in 1..4 |-> ""], <<<<>>, <<>>, <<>>, <<<<"a">>>>>>)

TrackerTrees == {Chain, Fan, Shared, DupDep}

InitTracker ==
  /\ tree \in TrackerTrees
  /\ filter = <<>>
  /\ spawnFails = {}
  /\ InitRun

\* The number of recordResult calls made for the nodes 1..n.
RECURSIVE Records(_)
Records(n) == IF n = 0 THEN 0 ELSE count[n].complete + Records(n - 1)

\* tracker.recordResult({key, path, ok})
RecordResult(n, ok) ==
  /\ phase = "initialized"
  /\ Records(Len(tree.key)) < MaxRecords
  /\ Commit([recordResult(Cur, TaskResult(tree.key[n], tree.path[n], ok,
                                          IF ok THEN 0 ELSE 1, FALSE, NoPath, <<>>))
               EXCEPT !.count[n].complete = @ + 1])
  /\ UNCHANGED <<Inputs, Tracker, phase, runOk>>

\* await tracker.waitForDependencies(path) by a task that declares
\* dependencies, up to the await
WaitForDependencies(n) ==
  /\ phase = "initialized"
  /\ pc[n] = "idle"
  /\ Len(tree.deps[n]) > 0
  /\ Commit([waitForDependencies(Cur, n, tree.path[n]) EXCEPT !.pc[n] = "waitDeps"])
  /\ UNCHANGED <<Inputs, Tracker, phase, runOk>>

\* the promise of waitForDependencies has resolved and the caller goes on
WaitResolved(n) ==
  /\ phase = "initialized"
  /\ ResumeReady(n)
  /\ pc' = [pc EXCEPT ![n] = "resumed"]
  /\ UNCHANGED <<Inputs, Tracker, phase, runOk, results, waiters, processes,
                 killedPaths, pos, ret, awaiting, exec, signalled, count, hist>>

\* tracker.registerProcess(path, proc) with a launched process
RegisterProcess(n) ==
  /\ phase = "initialized"
  /\ ~Has(processes, tree.path[n])
  /\ processes' = Put(processes, tree.path[n], [node |-> n, pid |-> TRUE])
  /\ UNCHANGED <<Inputs, Tracker, phase, runOk, results, waiters, killedPaths,
                 pc, pos, ret, awaiting, exec, signalled, count, hist>>

\* tracker.unregisterProcess(path)
UnregisterProcess(n) ==
  /\ phase = "initialized"
  /\ Has(processes, tree.path[n])
  /\ processes' = Del(processes, tree.path[n])
  /\ UNCHANGED <<Inputs, Tracker, phase, runOk, results, waiters, killedPaths,
                 pc, pos, ret, awaiting, exec, signalled, count, hist>>

\* tracker.killDependents(failedPath)
KillDependents(n) ==
  /\ phase = "initialized"
  /\ Commit(killDependents(Cur, tree.path[n]))
  /\ UNCHANGED <<Inputs, Tracker, phase, runOk>>

NextTracker ==
  \/ Initialize
  \/ \E n \in Nodes(tree) : \E ok \in BOOLEAN : RecordResult(n, ok)
  \/ \E n \in Nodes(tree) : WaitForDependencies(n)
  \/ \E n \in Nodes(tree) : WaitResolved(n)
  \/ \E n \in Nodes(tree) : RegisterProcess(n)
  \/ \E n \in Nodes(tree) : UnregisterProcess(n)
  \/ \E n \in Nodes(tree) : KillDependents(n)

SpecTracker == InitTracker /\ [][NextTracker]_vars

(***************************************************************************)
(* Vocabulary of the properties.                                           *)
(***************************************************************************)
TrackerMaps == Cur.m

IsLeaf(n) == Len(tree.kids[n]) = 0 /\ tree.run[n]

IsGroup(n) == Len(tree.kids[n]) > 0

Returned(n) == pc[n] = "returned"

\* The paths the reportingDependsOn list of node n resolves to.
ResolvedDeps(n) ==
  {ResolveDependency(TrackerMaps, tree.deps[n][i]) : i \in DOMAIN tree.deps[n]}
    \ {NoPath}

\* The resolved edges of the whole tree and whether they contain a cycle.
ResolvedEdges ==
  {<<tree.path[n], q>> : n \in Nodes(tree), q \in UNION {ResolvedDeps(k) : k \in Nodes(tree)}}
    \cap UNION {{<<tree.path[n], q>> : q \in ResolvedDeps(n)} : n \in Nodes(tree)}

RECURSIVE ReachFrom(_, _, _)
ReachFrom(E, S, k) ==
  IF k = 0 THEN S
  ELSE ReachFrom(E, S \cup {e[2] : e \in {x \in E : x[1] \in S}}, k - 1)

HasCycle(E) ==
  \E e \in E : e[1] \in ReachFrom(E, {e[2]}, Cardinality(E))

\* A shortest cycle through three different nodes: no self-loop, no two-cycle.
OnlyLongCycles(E) ==
  /\ HasCycle(E)
  /\ \A e \in E : e[1] # e[2] /\ <<e[2], e[1]>> \notin E

(***************************************************************************)
(* C1.  As claimed: if A declares reportingDependsOn [B] and B's failed    *)
(* result is on record when A's process finishes, A's recorded result is   *)
(* suppressed with suppressedBy = B's path.                                *)
(***************************************************************************)
SoleDep(n) ==
  IF Len(tree.deps[n]) = 1
  THEN ResolveDependency(TrackerMaps, tree.deps[n][1]) ELSE NoPath

SuppressedBy(n, b) ==
  /\ Has(results, tree.path[n])
  /\ results[tree.path[n]].suppressed
  /\ results[tree.path[n]].suppressedBy = b

C1_AsClaimed ==
  \A n \in Nodes(tree) :
    (IsLeaf(n) /\ Returned(n) /\ SoleDep(n) # NoPath
       /\ SoleDep(n) \in hist[n].atExit)
      => SuppressedBy(n, SoleDep(n))

\* C1 as amended: if A declares reportingDependsOn [B] and B's failed result is
\* recorded after A's process was spawned and before it finishes, A's recorded
\* result is suppressed with suppressedBy = B's path.
C1_KilledDependentSuppressed ==
  \A n \in Nodes(tree) :
    (IsLeaf(n) /\ Returned(n) /\ SoleDep(n) # NoPath
       /\ SoleDep(n) \in hist[n].atExit \ hist[n].atSpawn)
      => SuppressedBy(n, SoleDep(n))

\* A dependent whose process ended with exit code 0 by itself after its
\* dependency's failure was recorded, and was recorded suppressed.
C1_Witness ==
  \E n \in Nodes(tree) :
    /\ IsLeaf(n) /\ Returned(n) /\ SoleDep(n) # NoPath
    /\ SoleDep(n) \in hist[n].atExit \ hist[n].atSpawn
    /\ exec[n].code = 0
    /\ SuppressedBy(n, SoleDep(n))

(***************************************************************************)
(* C2.  initialize throws exactly when the resolved reportingDependsOn     *)
(* edges contain a cycle.                                                  *)
(***************************************************************************)
C2_ThrowsIffCyclic ==
  phase # "new" => (phase = "threw" <=> HasCycle(ResolvedEdges))

\* initialize threw on a graph whose only cycles run through three nodes.
C2_Witness ==
  phase = "threw" /\ OnlyLongCycles(ResolvedEdges)

(***************************************************************************)
(* C3.  With a cyclic dependency graph run() aborts before anything is     *)
(* started: no onTaskStart, no process, no recorded result.                *)
(***************************************************************************)
C3_CycleAbortsBeforeStart ==
  (phase # "new" /\ HasCycle(ResolvedEdges)) =>
    /\ phase = "threw"
    /\ \A n \in Nodes(tree) : pc[n] = "idle" /\ count[n].start = 0
    /\ processes = EmptyMap
    /\ results = EmptyMap

C3_Witness ==
  phase = "threw" /\ HasCycle(ResolvedEdges)

(***************************************************************************)
(* C4.  As claimed: an identifier that resolves to nothing is as if        *)
(* absent, so a task's wait is over once every dependency that does        *)
(* resolve has a result.                                                   *)
(***************************************************************************)
C4_UnresolvedIgnored ==
  \A n \in Nodes(tree) :
    (pc[n] \in {"waitKilled", "waitDeps"}
       /\ \A q \in ResolvedDeps(n) : Has(results, q))
      => awaiting[n] = {}

(***************************************************************************)
(* C5.  As claimed: with reportingDependsOn [B] and B recorded ok:true,    *)
(* A's non-zero exit is recorded ok:false and not suppressed; and a result *)
(* is suppressed only if a dependency has a recorded ok:false result.      *)
(***************************************************************************)
HasFailedDep(n) ==
  \E q \in ResolvedDeps(n) : Has(results, q) /\ ~results[q].ok

PassedSoleDep(n) ==
  /\ IsLeaf(n) /\ Returned(n) /\ SoleDep(n) # NoPath
  /\ Has(results, SoleDep(n)) /\ results[SoleDep(n)].ok

C5_AsClaimed ==
  /\ \A n \in Nodes(tree) :
       (PassedSoleDep(n) /\ exec[n].code # 0)
         => ~ret[n].ok /\ ~ret[n].suppressed
  /\ \A n \in Nodes(tree) :
       (Returned(n) /\ ret[n].suppressed) => HasFailedDep(n)

\* C5 as amended: with reportingDependsOn [B] and B recorded ok:true, A's
\* non-zero exit is recorded ok:false and not suppressed unless A's process
\* ended by SIGTERM or with exit code 143; a leaf's result is suppressed only if
\* a dependency has a recorded ok:false result or its process ended that way,
\* and a group's only if all its child results are suppressed.
C5_OwnFailureNotSuppressed ==
  /\ \A n \in Nodes(tree) :
       (PassedSoleDep(n) /\ exec[n].code \notin {0, 143})
         => ~ret[n].ok /\ ~ret[n].suppressed
  /\ \A n \in Nodes(tree) :
       (Returned(n) /\ ret[n].suppressed) =>
         IF IsGroup(n)
         THEN \A i \in DOMAIN ret[n].children : ret[n].children[i].suppressed
         ELSE HasFailedDep(n) \/ exec[n].code = 143

\* A task that exited 1 after its only dependency passed, recorded unsuppressed.
C5_Witness ==
  \E n \in Nodes(tree) :
    PassedSoleDep(n) /\ exec[n].code = 1 /\ ~ret[n].ok /\ ~ret[n].suppressed

(***************************************************************************)
(* C6.  As claimed: whenever a node of the returned result tree has        *)
(* ok:false, suppressed or not, the run result's ok is false.              *)
(***************************************************************************)
RECURSIVE ResultTree(_)
ResultTree(rs) ==
  IF rs = <<>> THEN {}
  ELSE {Head(rs)} \cup ResultTree(Head(rs).children) \cup ResultTree(Tail(rs))

RunResults ==
  LET fn == filteredNodes(Cur, tree.top, <<>>) IN [i \in DOMAIN fn |-> ret[fn[i]]]

C6_AnyFailureFailsRun ==
  phase = "done" => ((\E r \in ResultTree(RunResults) : ~r.ok) => ~runOk)

(***************************************************************************)
(* C7.  A group result is suppressed iff it has a child result and every   *)
(* child result is suppressed, then with the first child's suppressedBy;   *)
(* a mix of suppressed children and unsuppressed failures gives a group    *)
(* that is ok:false and not suppressed.                                    *)
(***************************************************************************)
FilteredKids(g) == filteredNodes(Cur, tree.kids[g], tree.path[g])

ChildResults(g) ==
  [i \in 1..Len(ret[g].children) |-> ret[FilteredKids(g)[i]]]

MixedChildren(cs) ==
  /\ \E i \in DOMAIN cs : cs[i].suppressed
  /\ \E i \in DOMAIN cs : ~cs[i].ok /\ ~cs[i].suppressed

C7_GroupSuppressedIffAll ==
  \A g \in Nodes(tree) :
    (IsGroup(g) /\ Returned(g)) =>
      LET cs == ChildResults(g) IN
      /\ ret[g].children = cs
      /\ ret[g].suppressed <=>
           (Len(cs) > 0 /\ \A i \in DOMAIN cs : cs[i].suppressed)
      /\ ret[g].suppressed => ret[g].suppressedBy = cs[1].suppressedBy
      /\ MixedChildren(cs) => ~ret[g].ok /\ ~ret[g].suppressed

\* A returned group with a suppressed child and a child that failed by itself.
C7_Witness ==
  \E g \in Nodes(tree) :
    /\ IsGroup(g) /\ Returned(g) /\ MixedChildren(ChildResults(g))
    /\ ~ret[g].ok /\ ~ret[g].suppressed

(***************************************************************************)
(* C8.  A group's ok is true iff every child result is ok or suppressed.   *)
(***************************************************************************)
C8_GroupOkIffAllOkOrSuppressed ==
  \A g \in Nodes(tree) :
    (IsGroup(g) /\ Returned(g)) =>
      (ret[g].ok <=> \A i \in DOMAIN ChildResults(g) :
                       ChildResults(g)[i].ok \/ ChildResults(g)[i].suppressed)

\* A returned group that is ok although one of its children is a suppressed
\* failure and another one passed.
C8_Witness ==
  \E g \in Nodes(tree) :
    /\ IsGroup(g) /\ Returned(g) /\ ret[g].ok
    /\ \E i \in DOMAIN ChildResults(g) :
         ~ChildResults(g)[i].ok /\ ChildResults(g)[i].suppressed
    /\ \E i \in DOMAIN ChildResults(g) : ChildResults(g)[i].ok

(***************************************************************************)
(* C9.  Under fail-fast, once a child's result is ok:false no later        *)
(* sibling is started: no onTaskStart, no process.                         *)
(***************************************************************************)
C9_FailFastStopsLaunching ==
  \A g \in Nodes(tree) :
    (IsGroup(g) /\ Strategy(tree, g) = "fail-fast") =>
      \A i, j \in DOMAIN FilteredKids(g) :
        (i < j /\ Returned(FilteredKids(g)[i]) /\ ~ret[FilteredKids(g)[i]].ok)
          => /\ pc[FilteredKids(g)[j]] = "idle"
             /\ count[FilteredKids(g)[j]].start = 0
             /\ ~Has(processes, tree.path[FilteredKids(g)[j]])

\* [a passes, b fails, c] under fail-fast: the group returned, c never started.
C9_Witness ==
  \E g \in Nodes(tree) :
    /\ IsGroup(g) /\ Strategy(tree, g) = "fail-fast" /\ Returned(g)
    /\ Len(FilteredKids(g)) = 3
    /\ ret[FilteredKids(g)[1]].ok
    /\ ~ret[FilteredKids(g)[2]].ok
    /\ pc[FilteredKids(g)[3]] = "idle"

(***************************************************************************)
(* C10.  Under sequential and fail-fast a child is started only after the  *)
(* child before it, with its whole subtree, has returned; under sequential *)
(* the next child is started whatever the outcome, and the group returns   *)
(* the results of all its selected children.                               *)
(***************************************************************************)
RECURSIVE Subtree(_)
Subtree(n) == {n} \cup UNION {Subtree(k) : k \in Range(tree.kids[n])}

C10_InOrderNoOverlap ==
  \A g \in Nodes(tree) :
    (IsGroup(g) /\ Strategy(tree, g) # "parallel") =>
      LET fn == FilteredKids(g) IN
      /\ \A i \in 1..(Len(fn) - 1) :
           pc[fn[i + 1]] # "idle" =>
             /\ Returned(fn[i])
             /\ \A d \in Subtree(fn[i]) : pc[d] \in {"idle", "returned"}
      /\ Strategy(tree, g) = "sequential" =>
           /\ \A i \in 1..(Len(fn) - 1) :
                (Returned(fn[i]) /\ ~JobPending) => pc[fn[i + 1]] # "idle"
           /\ Returned(g) => /\ \A i \in DOMAIN fn : Returned(fn[i])
                             /\ Len(ret[g].children) = Len(fn)

\* A sequential group whose first child failed and whose next child runs.
C10_Witness ==
  \E g \in Nodes(tree) :
    /\ IsGroup(g) /\ Strategy(tree, g) = "sequential"
    /\ Len(FilteredKids(g)) >= 2
    /\ Returned(FilteredKids(g)[1]) /\ ~ret[FilteredKids(g)[1]].ok
    /\ pc[FilteredKids(g)[2]] = "proc"

(***************************************************************************)
(* C11.  Reporting dependencies never block start: a started leaf's first  *)
(* steps are onTaskStart and the spawn, it waits for dependency results    *)
(* only after its process has ended, and once a parallel group (or the     *)
(* top level) is entered every selected child has been started.            *)
(***************************************************************************)
Waiting(n) == pc[n] \in {"waitKilled", "waitDeps"}

C11_DependenciesNeverBlockStart ==
  /\ \A n \in Nodes(tree) :
       (IsLeaf(n) /\ pc[n] # "idle") =>
         /\ Len(hist[n].events) >= 2
         /\ SubSeq(hist[n].events, 1, 2) = <<"start", "spawn">>
         /\ awaiting[n] # {} => Waiting(n)
  /\ \A g \in Nodes(tree) :
       (IsGroup(g) /\ Strategy(tree, g) = "parallel" /\ pc[g] # "idle") =>
         \A k \in Range(FilteredKids(g)) : pc[k] # "idle"
  /\ phase \in {"running", "done"} =>
       \A k \in Range(filteredNodes(Cur, tree.top, <<>>)) : pc[k] # "idle"

\* A task and the dependency it declares both have their process running, the
\* dependency without a result.
C11_Witness ==
  \E n \in Nodes(tree) : \E d \in Nodes(tree) :
    /\ n # d /\ SoleDep(n) = tree.path[d]
    /\ pc[n] = "proc" /\ pc[d] = "proc"
    /\ Has(processes, tree.path[n]) /\ ~Has(results, tree.path[d])

(***************************************************************************)
(* C12.  onTaskStart is the first step of every node's runNode, before the *)
(* process is launched or the children are entered; onTaskComplete is      *)
(* called at most once per node, once exactly when the node's runNode has  *)
(* returned, and is given the result that runNode returns.                 *)
(***************************************************************************)
Occurrences(seq, x) == Cardinality({i \in DOMAIN seq : seq[i] = x})

LastTwo(seq) == SubSeq(seq, Len(seq) - 1, Len(seq))

C13_RecordedThenReported ==
  \A n \in Nodes(tree) :
    /\ Returned(n) =>
         /\ Len(hist[n].events) >= 2
         /\ LastTwo(hist[n].events) = <<"record", "complete">>
         /\ Has(results, tree.path[n])
         /\ results[tree.path[n]] = ret[n]
         /\ hist[n].reported = <<results[tree.path[n]]>>
    /\ ~Returned(n) => /\ ~Has(results, tree.path[n])
                       /\ hist[n].reported = <<>>

\* A finished run in which a group, a leaf without a command, a terminated
\* leaf and a normally ended leaf have all returned.
C13_Witness ==
  /\ phase = "done"
  /\ \E n \in Nodes(tree) : IsGroup(n) /\ Returned(n)
  /\ \E n \in Nodes(tree) : ~IsGroup(n) /\ ~tree.run[n] /\ Returned(n)
  /\ \E n \in Nodes(tree) : IsLeaf(n) /\ Returned(n) /\ exec[n].killed
  /\ \E n \in Nodes(tree) : IsLeaf(n) /\ Returned(n) /\ ~exec[n].killed

(***************************************************************************)
(* C14.  As claimed: in a run whose dependency graph is acyclic and whose  *)
(* processes all end, every node that was started produces its one result  *)
(* and run() returns.  Stated on the states: while run() has not returned, *)
(* a process is still running or a continuation is ready to run; and when  *)
(* it has returned, every started node has reported its one result.        *)
(***************************************************************************)
AllStartedReturned ==
  \A n \in Nodes(tree) : pc[n] # "idle" => Returned(n) /\ count[n].complete = 1

EventPending ==
  JobPending \/ \E n \in Nodes(tree) : pc[n] = "proc"

C14_EveryRunReturns ==
  /\ phase = "running" => EventPending
  /\ phase = "done" => AllStartedReturned

(***************************************************************************)
(* C15.  As claimed: whenever waitForDependencies(path) has resolved, a    *)
(* result is recorded for every path the task's dependencies resolve to,   *)
(* also in trees where one key occurs under different parents.             *)
(***************************************************************************)
WaitOver(n) == pc[n] = "resumed" \/ (Waiting(n) /\ awaiting[n] = {})

C15_AllDependencyResultsPresent ==
  \A n \in Nodes(tree) :
    WaitOver(n) => \A q \in ResolvedDeps(n) : Has(results, q)

(***************************************************************************)
(* C16.  As claimed: no wake-up is lost and none comes early.  While a     *)
(* task waits, the promise for a resolvable dependency is pending exactly  *)
(* as long as that dependency has no result, whether the result came       *)
(* before or after the wait began and however many tasks wait for it.      *)
(***************************************************************************)
C16_PendingIffResultMissing ==
  \A n \in Nodes(tree) : \A i \in DOMAIN tree.deps[n] :
    LET q == ResolveDependency(TrackerMaps, tree.deps[n][i]) IN
    (Waiting(n) /\ q # NoPath) => (i \in awaiting[n] <=> ~Has(results, q))

(***************************************************************************)
(* C17.  As claimed: results are append-only; a result on record for a     *)
(* path is never replaced by a later recordResult (first write wins).      *)
(***************************************************************************)
C17_FirstWriteWins ==
  [][\A p \in DOMAIN results : p \in DOMAIN results' /\ results'[p] = results[p]]_vars

(***************************************************************************)
(* C18.  killDependents is idempotent and safe: in every state a second    *)
(* call for the same failed path changes nothing, calls for two failed     *)
(* paths give the same state in either order, a call touches only          *)
(* killedPaths and the signals sent, and it neither marks nor signals a    *)
(* dependent that has no registered process.                               *)
(***************************************************************************)
TrackerState(s) ==
  <<s.results, s.waiters, s.processes, s.killedPaths, s.signalled>>

Registered(s) == {p \in DOMAIN s.processes : s.processes[p].pid}

C18_KillDependentsIdempotent ==
  \A p \in DOMAIN pathToKey :
    LET s1 == killDependents(Cur, p) IN
    /\ TrackerState(killDependents(s1, p)) = TrackerState(s1)
    /\ \A q \in DOMAIN pathToKey :
         TrackerState(killDependents(s1, q))
           = TrackerState(killDependents(killDependents(Cur, q), p))
    /\ <<s1.results, s1.waiters, s1.processes>> = <<results, waiters, processes>>
    /\ s1.killedPaths \ killedPaths \subseteq Registered(Cur)
    /\ s1.signalled \ signalled \subseteq {processes[d].node : d \in Registered(Cur)}

\* The dependent of two failed paths has been marked killed, so that a further
\* call for either path finds it marked; another dependent of a failed path
\* whose process is not registered is left unmarked.
C18_Witness ==
  /\ \E d \in Nodes(tree) :
       /\ tree.path[d] \in killedPaths /\ d \in signalled
       /\ Has(processes, tree.path[d])
       /\ Cardinality(ResolvedDeps(d) \cap FailedPaths(Cur)) = 2
  \/ \E d \in Nodes(tree) : \E e \in Nodes(tree) :
       /\ d # e /\ ResolvedDeps(d) \cap ResolvedDeps(e) \cap FailedPaths(Cur) # {}
       /\ tree.path[d] \in killedPaths /\ Has(processes, tree.path[d])
       /\ tree.path[e] \notin killedPaths /\ ~Has(processes, tree.path[e])

(***************************************************************************)
(* C19.  As claimed: a dependent process that ended by itself is not       *)
(* classified as terminated; one that exited with code 0 is recorded       *)
(* ok:true and not suppressed, also when its dependency's failure is       *)
(* recorded before its close event is handled.                             *)
(***************************************************************************)
C19_OwnExitNotTerminated ==
  \A n \in Nodes(tree) :
    (IsLeaf(n) /\ Returned(n) /\ n \notin spawnFails /\ exec[n].code = 0)
      => ~exec[n].killed /\ ret[n].ok /\ ~ret[n].suppressed

(***************************************************************************)
(* C20.  As claimed: when a failed result is recorded for a path, every    *)
(* registered process whose task depends on that path through any chain of *)
(* reportingDependsOn edges is sent the termination signal.                *)
(***************************************************************************)
\* The step records a failed result for node n.
RecordsFailure(n) ==
  /\ count'[n].complete = count[n].complete + 1
  /\ Has(results', tree.path[n]) /\ ~results'[tree.path[n]].ok

HasRegisteredProcess(d) ==
  Has(processes, tree.path[d]) /\ processes[tree.path[d]].pid

DependsOn(d, p) == p \in ResolvedDeps(d)

DependsOnTransitively(d, p) ==
  p \in ReachFrom(ResolvedEdges, ResolvedDeps(d), Cardinality(ResolvedEdges))

C20_AsClaimed ==
  [][\A n \in Nodes(tree) : \A d \in Nodes(tree) :
       (RecordsFailure(n) /\ HasRegisteredProcess(d)
          /\ DependsOnTransitively(d, tree.path[n]))
         => d \in signalled' /\ tree.path[d] \in killedPaths']_vars

\* C20 as amended: when a failed result is recorded for a path, every
\* registered process whose task names that path in its own reportingDependsOn
\* is sent the termination signal and marked killed.
C20_DirectDependentsSignalled ==
  [][\A n \in Nodes(tree) : \A d \in Nodes(tree) :
       (RecordsFailure(n) /\ HasRegisteredProcess(d) /\ DependsOn(d, tree.path[n]))
         => d \in signalled' /\ tree.path[d] \in killedPaths']_vars

\* c -> b -> a with a's failure on record: b's process has been signalled, c's
\* process is registered and has not.
C20_Witness ==
  \E n \in Nodes(tree) : \E d \in Nodes(tree) : \E e \in Nodes(tree) :
    /\ Has(results, tree.path[n]) /\ ~results[tree.path[n]].ok
    /\ DependsOn(d, tree.path[n]) /\ d \in signalled
    /\ DependsOn(e, tree.path[d]) /\ ~DependsOn(e, tree.path[n])
    /\ HasRegisteredProcess(e) /\ e \notin signalled

(***************************************************************************)
(* C21.  Resolution is deterministic with path precedence: an identifier   *)
(* equal to a node's path resolves to that path also when it is the key of *)
(* another node; otherwise it resolves to the path of a node with that     *)
(* key; otherwise to nothing.  The reverse edges built by initialize are   *)
(* the edges so resolved, and the maps resolution reads are those of the   *)
(* tree.                                                                   *)
(***************************************************************************)
AllPaths == {tree.path[n] : n \in Nodes(tree)}

NodesWithKey(id) == {n \in Nodes(tree) : <<tree.key[n]>> = id}

ReverseOf(q) == IF Has(reverseDeps, q) THEN Range(reverseDeps[q]) ELSE {}

Ambiguous(id) == id \notin AllPaths /\ Cardinality(NodesWithKey(id)) > 1

C22_AmbiguousKeyIsError ==
  phase = "initialized" =>
    \A n \in Nodes(tree) : \A i \in DOMAIN tree.deps[n] : ~Ambiguous(tree.deps[n][i])

(***************************************************************************)
(* C23.  With a non-empty filter a node is executed only if its own path   *)
(* equals a filter entry or lies under one, or a descendant's path does;   *)
(* and every such node has been executed when run() returns, unless a      *)
(* fail-fast group stopped before it.                                      *)
(***************************************************************************)
UnderFilter(p) == \E i \in DOMAIN filter : IsPrefix(filter[i], p)

Selected(n) == \E d \in Subtree(n) : UnderFilter(tree.path[d])

RECURSIVE AncestorsOrSelf(_)
AncestorsOrSelf(n) ==
  IF ParentOf(tree, n) = 0 THEN {n} ELSE {n} \cup AncestorsOrSelf(ParentOf(tree, n))

\* A fail-fast group stopped at a failed child listed before m.
StoppedBefore(m) ==
  LET g == ParentOf(tree, m) IN
  /\ g # 0 /\ Strategy(tree, g) = "fail-fast"
  /\ \E i, j \in DOMAIN tree.kids[g] :
       /\ i < j /\ tree.kids[g][j] = m
       /\ Returned(tree.kids[g][i]) /\ ~ret[tree.kids[g][i]].ok

\* C23 as stated: when run() has returned, exactly the selected nodes have
\* been executed.
C23_AsClaimed ==
  (filter # <<>> /\ phase = "done") =>
    \A n \in Nodes(tree) : pc[n] # "idle" <=> Selected(n)

C23_FilterSelects ==
  filter # <<>> =>
    /\ \A n \in Nodes(tree) : pc[n] # "idle" => Selected(n)
    /\ \A n \in Nodes(tree) :
         (Selected(n) /\ ParentOf(tree, n) # 0
            /\ Strategy(tree, ParentOf(tree, n)) = "parallel"
            /\ pc[ParentOf(tree, n)] # "idle") => pc[n] # "idle"
    /\ phase = "done" =>
         \A n \in Nodes(tree) :
           Selected(n) =>
             Returned(n) \/ \E m \in AncestorsOrSelf(n) : StoppedBefore(m)

\* Filtered by the path of the grandchild b: b and its ancestors h and g have
\* returned, the siblings a and n were never started.
C23_Witness ==
  /\ phase = "done" /\ filter # <<>>
  /\ \E b \in Nodes(tree) :
       /\ filter = <<tree.path[b]>> /\ Len(tree.path[b]) = 3
       /\ \A m \in AncestorsOrSelf(b) : Returned(m)
       /\ \A m \in Nodes(tree) \ AncestorsOrSelf(b) :
            pc[m] = "idle" /\ count[m].start = 0

(***************************************************************************)
(* C24.  A command that cannot be launched never makes run() throw: its    *)
(* task gets a result with code 1 and ok:false, is not treated as          *)
(* terminated, and its siblings outside a fail-fast group still return     *)
(* with results of their own.                                              *)
(***************************************************************************)
Siblings(n) ==
  LET g == ParentOf(tree, n) IN
  Range(IF g = 0 THEN tree.top ELSE tree.kids[g]) \ {n}

LaunchFailed(n) == n \in spawnFails /\ pc[n] \notin {"idle", "proc"}

RunStarts == phase # "running" /\ phase' \in {"running", "threw"}

C25_FreshTrackerPerRun ==
  [][RunStarts => /\ results = EmptyMap
                  /\ killedPaths = {}
                  /\ waiters = EmptyMap
                  /\ processes = EmptyMap]_vars

(***************************************************************************)
(* C26.  A node that declares reportingDependsOn, whether a leaf with a    *)
(* command, a leaf without one or a group, has its result recorded and     *)
(* reported only after the results of all its resolved dependencies have   *)
(* been recorded.                                                          *)
(***************************************************************************)
C26_ReportedAfterDependencies ==
  \A n \in Nodes(tree) :
    (Returned(n) /\ tree.deps[n] # <<>>) =>
      \A q \in ResolvedDeps(n) : Has(results, q)

(***************************************************************************)
(* C27.  The output parser is called exactly once for a leaf whose process *)
(* ended without being classified as terminated, and never for a           *)
(* terminated leaf, a leaf without a command or a group.                   *)
(***************************************************************************)
ProcessEnded(n) == IsLeaf(n) /\ pc[n] \in {"waitKilled", "waitDeps", "returned"}

C27_ParsedOnceUnlessTerminated ==
  \A n \in Nodes(tree) :
    count[n].parse = IF ProcessEnded(n) /\ ~exec[n].killed THEN 1 ELSE 0

\* A finished run with a parsed leaf, a terminated leaf and a group.
C27_Witness ==
  /\ phase = "done"
  /\ \E n \in Nodes(tree) : ProcessEnded(n) /\ ~exec[n].killed /\ count[n].parse = 1
  /\ \E n \in Nodes(tree) : ProcessEnded(n) /\ exec[n].killed /\ count[n].parse = 0
  /\ \E g \in Nodes(tree) : IsGroup(g) /\ Returned(g) /\ count[g].parse = 0

(***************************************************************************)
(* C28.  getFailedDependency(path) is the resolved path of the first       *)
(* dependency, in declared order, whose recorded result is ok:false; it is *)
(* null when the task declares no dependency, when every recorded          *)
(* dependency result is ok:true, and when no dependency result is recorded.*)
(***************************************************************************)
DepPath(n, i) == ResolveDependency(TrackerMaps, tree.deps[n][i])

FailedAt(n) ==
  {i \in DOMAIN tree.deps[n] :
     /\ DepPath(n, i) # NoPath
     /\ Has(results, DepPath(n, i))
     /\ ~results[DepPath(n, i)].ok}

C28_FirstFailedInDeclaredOrder ==
  phase = "initialized" =>
    \A n \in Nodes(tree) :
      LET got == getFailedDependency(Cur, tree.path[n]) IN
      /\ FailedAt(n) # {} =>
           \E i \in FailedAt(n) :
             /\ got = DepPath(n, i)
             /\ \A j \in FailedAt(n) : i <= j
      /\ FailedAt(n) = {} => got = NoPath
      /\ tree.deps[n] = <<>> => got = NoPath
      /\ (\A q \in ResolvedDeps(n) : ~Has(results, q)) => got = NoPath
      /\ (\A q \in ResolvedDeps(n) : Has(results, q) => results[q].ok)
           => got = NoPath

\* Two different dependencies, both recorded ok:false: the one declared
\* first is returned.
C28_Witness ==
  /\ phase = "initialized"
  /\ \E n \in Nodes(tree) :
       /\ Len(tree.deps[n]) = 2 /\ FailedAt(n) = {1, 2}
       /\ DepPath(n, 1) # DepPath(n, 2)
       /\ getFailedDependency(Cur, tree.path[n]) = DepPath(n, 1)

(***************************************************************************)
(* C29.  A group with some children suppressed and all the others passed   *)
(* is not reported like a group whose children all passed: its result is   *)
(* not ok:true, code 0 and unsuppressed.                                   *)
(***************************************************************************)
SuppressedAndPassed(cs) ==
  /\ \E i \in DOMAIN cs : cs[i].suppressed
  /\ \E i \in DOMAIN cs : ~cs[i].suppressed
  /\ \A i \in DOMAIN cs : cs[i].suppressed \/ cs[i].ok

C29_MixedStatusDiffersFromPass ==
  \A g \in Nodes(tree) :
    (IsGroup(g) /\ Returned(g) /\ SuppressedAndPassed(ChildResults(g))) =>
      ~(ret[g].ok /\ ret[g].code = 0 /\ ~ret[g].suppressed)

(***************************************************************************)
(* C30.  run([]) returns ok:true with no task result; it starts no process *)
(* and calls no task callback.                                             *)
(***************************************************************************)
EmptyTree == tree.top = <<>>

C30_EmptyTreePasses ==
  EmptyTree =>
    /\ phase # "threw"
    /\ Nodes(tree) = {} /\ pc = <<>> /\ count = <<>>
    /\ processes = EmptyMap /\ results = EmptyMap /\ ret = EmptyMap
    /\ phase = "done" => runOk /\ RunResults = <<>>

C30_Witness == EmptyTree /\ phase = "done" /\ runOk /\ RunResults = <<>>

(***************************************************************************)
(* C31.  The cycle initialize reports when it rejects a graph is a cycle   *)
(* of the resolved edges: a list of paths that starts and ends with the    *)
(* same path and in which every path declares a dependency that resolves   *)
(* to the next one.  The loop that rebuilds it always ends.                *)
(***************************************************************************)
ReportedCycle ==
  initialize([pathToKey |-> EmptyMap, keyToPath |-> EmptyMap,
              dependencies |-> EmptyMap, reverseDeps |-> EmptyMap,
              pathOrder |-> <<>>, depOrder |-> <<>>], tree).cycle

C31_ReportedCycleIsReal ==
  phase = "threw" =>
    LET c == ReportedCycle IN
    /\ Len(c) >= 2
    /\ c[1] = c[Len(c)]
    /\ \A i \in 1..Len(c) : Has(pathToKey, c[i])
    /\ \A i \in 1..(Len(c) - 1) : <<c[i], c[i + 1]>> \in ResolvedEdges
    /\ \A i, j \in 1..(Len(c) - 1) : c[i] = c[j] => i = j

\* A rejected graph whose reported cycle runs through three different tasks.
C31_Witness ==
  /\ phase = "threw"
  /\ Len(ReportedCycle) = 4
  /\ Cardinality(Range(ReportedCycle)) = 3

(***************************************************************************)
(* C32.  As claimed: when the filter selects a task and excludes one of    *)
(* its reporting dependencies, the task still gets its result and run()    *)
(* returns; no run stops with a task waiting for an excluded dependency.   *)
(***************************************************************************)
NodeAt(q) == CHOOSE k \in Nodes(tree) : tree.path[k] = q

Stuck == phase = "running" /\ ~EventPending

AwaitsExcluded(n) ==
  /\ Waiting(n)
  /\ \E i \in awaiting[n] :
       /\ DepPath(n, i) # NoPath
       /\ ~Selected(NodeAt(DepPath(n, i)))

C32_ExcludedDependencyNeverBlocks ==
  filter # <<>> => ~(Stuck /\ \E n \in Nodes(tree) : AwaitsExcluded(n))

(***************************************************************************)
(* C33.  As claimed: a wait for a dependency that has not been started     *)
(* does not stop the run, neither when a child of a sequential or          *)
(* fail-fast group depends on a later sibling nor when the dependency was  *)
(* skipped by a fail-fast group.                                           *)
(***************************************************************************)
AwaitsUnstarted(n) ==
  /\ Waiting(n)
  /\ \E i \in awaiting[n] :
       /\ DepPath(n, i) # NoPath
       /\ pc[NodeAt(DepPath(n, i))] = "idle"

C33_UnstartedDependencyNeverBlocks ==
  filter = <<>> => ~(Stuck /\ \E n \in Nodes(tree) : AwaitsUnstarted(n))

(***************************************************************************)
(* C34.  As claimed: a leaf that depends on its own ancestor group, or on  *)
(* a group containing a node that depends on the leaf, does not stop the   *)
(* run.                                                                    *)
(***************************************************************************)
AwaitsThroughContainment(n) ==
  /\ Waiting(n)
  /\ \E i \in awaiting[n] :
       /\ DepPath(n, i) # NoPath
       /\ LET g == NodeAt(DepPath(n, i)) IN
          /\ IsGroup(g) /\ pc[g] = "children"
          /\ \/ n \in Subtree(g) \ {g}
             \/ \E k \in Subtree(g) : \E j \in awaiting[k] :
                  Waiting(k) /\ DepPath(k, j) = tree.path[n]

C34_ContainmentNeverBlocks ==
  ~HasCycle(ResolvedEdges) => ~(Stuck /\ \E n \in Nodes(tree) : AwaitsThroughContainment(n))

(***************************************************************************)
(* C35.  A path carries a killed mark only if a failed result is recorded  *)
(* for one of its resolved dependencies.  A task terminated by the tracker *)
(* therefore gets one of its own failed dependencies as suppressedBy, and  *)
(* "unknown" appears only for a termination the tracker did not issue.     *)
(***************************************************************************)
FailedDeps(n) == {q \in ResolvedDeps(n) : Has(results, q) /\ ~results[q].ok}

MarkedKilled(n) == tree.path[n] \in killedPaths

C35_KilledImpliesFailedDependency ==
  \A n \in Nodes(tree) :
    /\ MarkedKilled(n) => IsLeaf(n) /\ FailedDeps(n) # {}
    /\ n \in signalled => MarkedKilled(n)
    /\ (MarkedKilled(n) /\ Returned(n)) =>
         /\ ret[n].suppressed /\ ~ret[n].ok
         /\ ret[n].suppressedBy \in FailedDeps(n)
    /\ (IsLeaf(n) /\ Returned(n) /\ ret[n].suppressedBy = Unknown) =>
         /\ ~MarkedKilled(n)
         /\ exec[n].killed /\ exec[n].code = 143

\* A task killed by the tracker has returned, suppressed by its failed
\* dependency, and another task that exited with 143 by itself carries the
\* sentinel.
C35_Witness ==
  /\ \E n \in Nodes(tree) :
       /\ MarkedKilled(n) /\ n \in signalled /\ Returned(n)
       /\ ret[n].suppressedBy \in FailedDeps(n)
  /\ \E n \in Nodes(tree) :
       IsLeaf(n) /\ Returned(n) /\ ret[n].suppressedBy = Unknown

(***************************************************************************)
(* C36.  Recording a result for path P signals and marks as killed exactly *)
(* the tasks that list P among their resolved dependencies and have a      *)
(* registered process, and only when the result is ok:false.  The          *)
(* processes, the other killed marks and the results of all other paths    *)
(* stay as they were.                                                      *)
(***************************************************************************)
LiveDependents(p) ==
  {n \in Nodes(tree) : p \in ResolvedDeps(n) /\ tree.path[n] \in Registered(Cur)}

C36_KillScopedToLiveDependents ==
  \A k \in Nodes(tree) : \A ok \in BOOLEAN :
    LET p == tree.path[k]
        s1 == recordResult(Cur, TaskResult(tree.key[k], p, ok,
                                           IF ok THEN 0 ELSE 1, FALSE, NoPath, <<>>))
        hit == IF ok THEN {} ELSE LiveDependents(p)
    IN /\ s1.killedPaths = killedPaths \cup {tree.path[n] : n \in hit}
       /\ s1.signalled = signalled \cup hit
       /\ s1.processes = processes
       /\ \A q \in DOMAIN s1.results : q # p => Has(results, q) /\ s1.results[q] = results[q]
       /\ DOMAIN s1.results = DOMAIN results \cup {p}

\* A failed result is on record, its dependent with a registered process is
\* signalled and marked, and a registered process of a task that does not
\* depend on it is neither.
C36_Witness ==
  \E k \in Nodes(tree) :
    /\ Has(results, tree.path[k]) /\ ~results[tree.path[k]].ok
    /\ \E n \in LiveDependents(tree.path[k]) : n \in signalled /\ MarkedKilled(n)
    /\ \E n \in Nodes(tree) :
         /\ tree.path[n] \in Registered(Cur) /\ ResolvedDeps(n) = {}
         /\ n \notin signalled /\ ~MarkedKilled(n)

(***************************************************************************)
(* C37.  The process registry holds exactly the paths whose process was    *)
(* spawned and has not closed yet.  When run() has returned no process     *)
(* handle is registered, no waiter is pending and every executed node has  *)
(* a recorded result.                                                      *)
(***************************************************************************)
ProcessOpen(n) == pc[n] = "proc"

C37_RegistryExactAndQuiescentAtEnd ==
  /\ DOMAIN processes = {tree.path[n] : n \in {k \in Nodes(tree) : ProcessOpen(k)}}
  /\ \A n \in Nodes(tree) :
       ProcessOpen(n) =>
         processes[tree.path[n]] = [node |-> n, pid |-> n \notin spawnFails]
  /\ \A n \in Nodes(tree) : Returned(n) => Has(results, tree.path[n])
  /\ phase = "done" =>
       /\ processes = EmptyMap
       /\ waiters = EmptyMap
       /\ \A n \in Nodes(tree) : awaiting[n] = {}
       /\ \A n \in Nodes(tree) : pc[n] # "idle" => Has(results, tree.path[n])

\* A finished run in which a task had waited for its dependency, and one in
\* which processes had been registered.
C37_Witness ==
  /\ phase = "done"
  /\ processes = EmptyMap /\ waiters = EmptyMap
  /\ \E n \in Nodes(tree) :
       /\ IsLeaf(n) /\ Returned(n) /\ tree.deps[n] # <<>>
       /\ \E i \in DOMAIN hist[n].events : hist[n].events[i] = "wait"
  /\ \E n \in Nodes(tree) : IsLeaf(n) /\ n \in spawnFails /\ Returned(n)

(***************************************************************************)
(* C38.  As claimed: reportingDependsOn on a group works as on a leaf.  A  *)
(* failed group with a failed declared dependency is suppressed by such a  *)
(* dependency, and no group result is recorded before the results of the   *)
(* group's dependencies.                                                   *)
(***************************************************************************)
C38_GroupDependenciesTakeEffect ==
  \A g \in Nodes(tree) :
    (IsGroup(g) /\ Returned(g)) =>
      /\ \A q \in ResolvedDeps(g) : Has(results, q)
      /\ (~ret[g].ok /\ FailedDeps(g) # {}) =>
           ret[g].suppressed /\ ret[g].suppressedBy \in FailedDeps(g)

(***************************************************************************)
(* C39.  When a non-empty filter matches no path of the tree, no task is   *)
(* started and run() returns ok:true with an empty task list.              *)
(***************************************************************************)
MatchesNothing == filter # <<>> /\ \A n \in Nodes(tree) : ~Selected(n)

C39_NoMatchRunsNothing ==
  MatchesNothing =>
    /\ phase # "threw"
    /\ \A n \in Nodes(tree) : pc[n] = "idle" /\ count[n].start = 0
                                /\ count[n].complete = 0
    /\ processes = EmptyMap /\ results = EmptyMap /\ ret = EmptyMap
    /\ phase = "done" => runOk /\ RunResults = <<>>

\* run() has returned ok:true for a tree with tasks and a filter that names
\* none of them.
C39_Witness ==
  /\ MatchesNothing /\ Nodes(tree) # {}
  /\ phase = "done" /\ runOk /\ RunResults = <<>>

====
